---------------------------- MODULE Spec2Model ----------------------------
(***************************************************************************)
(* Double or Nothing: the settlement endpoint (POST /api/play, in          *)
(* src/app/layout.tsx), its health operation (GET /api/play) and the       *)
(* statistics accessor (GET and POST /api/stats, in                        *)
(* src/app/api/stats/route.ts).                                            *)
(*                                                                         *)
(* Every handler is an async function; one action of the model is the code *)
(* a handler runs between two awaits.  Whatever an awaited call on the RPC *)
(* node or on the backing store can answer is an input of the action.      *)
(***************************************************************************)
EXTENDS Integers, Sequences, FiniteSets, TLC

(***************************************************************************)
(* Bounds of the model.                                                    *)
(***************************************************************************)
\* Numeric wagers sent to the settlement endpoint range over -1..MaxBet.
MaxBet == 2
\* Length of RPC_ENDPOINTS: the two public fallbacks, plus one per
\* configured SOLANA_RPC_ENDPOINT* variable.
NumEndpoints == 2
\* Math.random() is drawn from {0/RandomScale, ..., (RandomScale-1)/RandomScale}.
RandomScale == 4
\* Requests to POST /api/stats over a whole behaviour.
MaxWrites == 2
\* Rows of game_history when a statistics read begins on a filled store.
MaxRows == 22

(***************************************************************************)
(* JavaScript values of a JSON body field, as far as the handlers tell     *)
(* them apart: undefined (field absent), a number, NaN, and a string that  *)
(* is not numeric (such as "abc").                                         *)
(***************************************************************************)
Undefined == [t |-> "undefined", v |-> 0]
NaN == [t |-> "NaN", v |-> 0]
NonNumericString == [t |-> "string", v |-> 0]
Num(n) == [t |-> "number", v |-> n]

\* !x is FALSE
Truthy(x) ==
  CASE x.t = "undefined" -> FALSE
    [] x.t = "NaN" -> FALSE
    [] x.t = "number" -> x.v # 0
    [] x.t = "string" -> TRUE

\* The numeric coercion of the operators <= and *.
ToNumber(x) ==
  CASE x.t = "number" -> x
    [] OTHER -> NaN

\* x <= 0: FALSE whenever x coerces to NaN.
LeqZero(x) == ToNumber(x).t = "number" /\ ToNumber(x).v <= 0

\* x * k
Times(x, k) ==
  IF ToNumber(x).t = "number" THEN Num(ToNumber(x).v * k) ELSE NaN

(***************************************************************************)
(* Inputs of the settlement endpoint.  "" is an absent (or empty) string   *)
(* field: both are falsy.                                                  *)
(***************************************************************************)
Calls == {"c1", "c2"}
Signatures == {"", "sigA"}
\* "walletA" is a base58 public key; new PublicKey("notAKey") throws.
Wallets == {"", "walletA", "notAKey"}
BetValues == {Undefined, NonNumericString} \cup {Num(n) : n \in -1..MaxBet}
\* process.env.BANK_PRIVATE_KEY
KeyConfigs == {"unset", "base58", "jsonArray", "garbage"}
RPC_ENDPOINTS == 1..NumEndpoints
\* What the chain holds under the reference: nothing, the wager of 1 moved
\* from the bettor to the bank, or a transfer of 1 between other parties.
NoTransfer == [found |-> FALSE, amount |-> 0, from |-> "", to |-> ""]
WagerTransfer == [found |-> TRUE, amount |-> 1, from |-> "walletA",
                  to |-> "bankWallet"]
Transfers ==
  {NoTransfer, WagerTransfer,
   [found |-> TRUE, amount |-> 1, from |-> "walletB", to |-> "walletB"]}
RandomDraws == 0..(RandomScale - 1)

VARIABLES
  bankKey,     \* process.env.BANK_PRIVATE_KEY of the server
  call,        \* call[c]: the state of one invocation of POST /api/play
  ledger,      \* the payout transfers accepted for broadcast by the RPC node
  info,        \* the body of the last answer of GET /api/play
  chain,       \* the transfer the reference "sigA" names on the chain
  agg,         \* table global_stats: the row with id = 1, if any
  history,     \* table game_history, in insertion order
  now,         \* the latest reading of the clock (new Date()), 0 before any
  writer,      \* writer[w]: the state of one invocation of POST /api/stats
  reader,      \* the state of one invocation of GET /api/stats
  writes,      \* requests POST /api/stats has received so far
  writeFailed, \* some insert or upsert has failed so far
  readFailed,  \* some select of a statistics write has failed so far
  bankAddress, \* NEXT_PUBLIC_BANK_WALLET_ADDRESS of the page's build
  ui,          \* the state of the CoinFlipGame component
  round        \* round[k]: the state of one invocation of playGame

playVars == <<bankKey, call, ledger, info, chain>>
statsVars == <<agg, history, now, writer, reader, writes, writeFailed,
               readFailed>>
clientVars == <<bankAddress, ui, round>>
vars == <<bankKey, call, ledger, info, chain, agg, history, now, writer,
          reader, writes, writeFailed, readFailed, bankAddress, ui, round>>

NoResponse == [status |-> 0, error |-> "", success |-> FALSE, result |-> "",
               betAmount |-> Undefined, potentialWin |-> Undefined,
               payoutSignature |-> "", payoutPending |-> FALSE,
               payoutError |-> ""]

ErrorResponse(code, msg) == [NoResponse EXCEPT !.status = code, !.error = msg]

\* body: request.json() answered an object, whose fields are signature,
\* playerWallet and betAmount below.  random: the numerator of the number
\* Math.random() returned to determineResult, -1 before the draw.  status:
\* what getSignatureStatus answered, while verifyTransaction's result is
\* in use.  probed: the candidates getConnection has probed, each with the
\* answer of its probe.
IdleCall == [pc |-> "idle", body |-> FALSE, signature |-> "", playerWallet |-> "",
             betAmount |-> Undefined, next |-> 0, connection |-> 0,
             random |-> -1, result |-> "", potentialWin |-> Undefined,
             probes |-> 0, probed |-> <<>>,
             lookups |-> 0, lookupOn |-> 0, status |-> "",
             statusErr |-> FALSE,
             draws |-> 0, keyLoads |-> 0, keypair |-> FALSE,
             broadcasts |-> 0, broadcastOn |-> 0,
             response |-> NoResponse]

\* (mutant) a keypair whatever the environment holds
getBankKeypairAlways == TRUE

\* getBankKeypair: null when the variable is unset or parses neither as
\* base58 nor as a JSON array.
getBankKeypair == bankKey \in {"base58", "jsonArray"}

\* (mutant) a draw of exactly one half counted as a win
determineResultInclusive(r) == IF 2 * r <= RandomScale THEN "win" ELSE "loss"

\* determineResult, for the drawn number r / RandomScale.
determineResult(r) == IF 2 * r < RandomScale THEN "win" ELSE "loss"

(***************************************************************************)
(* POST /api/play, up to the first await after the body is parsed: input   *)
(* validation.                                                             *)
(***************************************************************************)
\* (mutant) the amount checked for presence only, not for its sign
ValidationErrorNoSign(s, w, b) ==
  IF s = "" THEN "Missing transaction signature"
  ELSE IF w = "" THEN "Missing player wallet address"
  ELSE IF ~Truthy(b) THEN "Invalid bet amount"
  ELSE ""

\* Lines 223-243: the message of the 400 answer, "" when the body passes.
ValidationError(s, w, b) ==
  IF s = "" THEN "Missing transaction signature"
  ELSE IF w = "" THEN "Missing player wallet address"
  ELSE IF ~Truthy(b) \/ LeqZero(b) THEN "Invalid bet amount"
  ELSE ""

\* What request.json() and the destructuring of its answer can throw: the
\* parser's SyntaxError on a body that is no JSON or is empty, the
\* TypeError on the body null.  "" is a body parsed into an object.
ParseErrors ==
  {"Expected property name or '}' in JSON at position 1 (line 1 column 2)",
   "Unexpected end of JSON input",
   "Cannot destructure property 'signature' of 'body' as it is null."}

\* Line 341: error.message || 'Internal server error'
ServerErrorText(message) ==
  IF message = "" THEN "Internal server error" ELSE message

\* The invocation cl once request.json() has answered (thrown = "": with
\* an object of the fields s, w and b; or it threw the error of message
\* thrown) and the body is validated.
Received(cl, thrown, s, w, b) ==
  LET got == [cl EXCEPT !.body = TRUE, !.signature = s,
                        !.playerWallet = w, !.betAmount = b]
  IN  IF thrown # "" THEN
        [cl EXCEPT !.pc = "done",
           !.response = ErrorResponse(500, ServerErrorText(thrown))]
      ELSE IF ValidationError(s, w, b) # "" THEN
        [got EXCEPT !.pc = "done",
           !.response = ErrorResponse(400, ValidationError(s, w, b))]
      ELSE [got EXCEPT !.pc = "connect", !.next = 1]

Receive(c) ==
  /\ call[c].pc = "idle"
  /\ \/ \E thrown \in ParseErrors :
          call' = [call EXCEPT ![c] =
                     Received(call[c], thrown, "", "", Undefined)]
     \/ \E s \in Signatures, w \in Wallets, b \in BetValues :
          call' = [call EXCEPT ![c] = Received(call[c], "", s, w, b)]
  /\ UNCHANGED <<bankKey, ledger, info, chain, statsVars, clientVars>>

(***************************************************************************)
(* getConnection: one liveness probe (conn.getSlot()) of the candidate     *)
(* call[c].next.                                                           *)
(***************************************************************************)
\* (mutant) the fallback on the last candidate
FallbackEndpointLast == NumEndpoints

\* RPC_ENDPOINTS[0]
FallbackEndpoint == CHOOSE e \in RPC_ENDPOINTS : \A f \in RPC_ENDPOINTS : e <= f

Probe(c) ==
  /\ call[c].pc = "connect"
  /\ \E alive \in BOOLEAN :
       LET probed == [call[c] EXCEPT !.probes = @ + 1,
                        !.probed = Append(@, [endpoint |-> call[c].next,
                                              alive |-> alive])]
       IN  call' = [call EXCEPT ![c] =
             IF alive THEN
               [probed EXCEPT !.pc = "verify", !.connection = call[c].next]
             ELSE IF call[c].next < NumEndpoints THEN
               [probed EXCEPT !.next = @ + 1]
             ELSE [probed EXCEPT !.pc = "verify",
                                 !.connection = FallbackEndpoint]]
  /\ UNCHANGED <<bankKey, ledger, info, chain, statsVars, clientVars>>

(***************************************************************************)
(* verifyTransaction: what connection.getSignatureStatus answered.         *)
(*   "null":  status.value is null (not indexed)                           *)
(*   "err":   status.value.err is set                                      *)
(*   "ok":    a status without err                                         *)
(*   "throw": the lookup threw                                             *)
(***************************************************************************)
StatusAnswers == {"null", "err", "ok", "throw"}

\* A reference the chain does not hold has no status.
StatusAnswersOf(transfer) ==
  IF transfer.found THEN StatusAnswers ELSE {"null", "throw"}

\* (mutant) only a status found without failure lets the round go on
verifyTransactionFailClosed(answer) == answer = "ok"

\* (mutant) a failed transfer trusted like an unindexed one
verifyTransactionFailOpen(answer) == TRUE

\* { valid } of verifyTransaction
verifyTransaction(answer) == answer # "err"

Verify(c) ==
  /\ call[c].pc = "verify"
  /\ \E answer \in StatusAnswersOf(chain) :
       LET looked == [call[c] EXCEPT !.lookups = @ + 1,
                                     !.lookupOn = call[c].connection,
                                     !.status = answer,
                                     !.statusErr = (answer = "err")]
       IN  call' = [call EXCEPT ![c] =
             IF ~verifyTransaction(answer) THEN
               [looked EXCEPT !.pc = "done",
                  !.response = ErrorResponse(400, "Transaction failed on-chain")]
             ELSE [looked EXCEPT !.pc = "settle"]]
  /\ UNCHANGED <<bankKey, ledger, info, chain, statsVars, clientVars>>

(***************************************************************************)
(* Steps 2 and 3 of POST up to the first await of sendPayout: the draw,    *)
(* the payout amount, the custodial key, and the construction of the       *)
(* transfer (new PublicKey, SystemProgram.transfer).                       *)
(***************************************************************************)
\* (mutant) twice the amount the referenced transfer moved
PotentialWinOnChain(betAmount) == Num(2 * chain.amount)

\* Line 270
PotentialWin(betAmount) == Times(betAmount, 2)

WinResponse(cl, pw) ==
  [NoResponse EXCEPT !.status = 200, !.success = TRUE, !.result = "win",
                     !.betAmount = cl.betAmount, !.potentialWin = pw]

\* Lines 291-298: no custodial key
PayoutPendingResponse(cl, pw) ==
  [WinResponse(cl, pw) EXCEPT !.payoutPending = TRUE]

\* (mutant) a payout failure answered as a server error
PayoutErrorAsFailure(cl, pw, message) == ErrorResponse(500, "Payout failed")

\* Line 199: error.message || 'Payout failed'
PayoutErrorText(message) == IF message = "" THEN "Payout failed" ELSE message

\* Lines 313-320: sendPayout answered { success: false, error }, having
\* caught the error of message message.
PayoutErrorResponse(cl, pw, message) ==
  [WinResponse(cl, pw) EXCEPT !.payoutError = PayoutErrorText(message)]

\* Lines 328-337, result = 'win'
PaidResponse(cl, pw) ==
  [WinResponse(cl, pw) EXCEPT !.payoutSignature = "payoutSig"]

\* Lines 328-337, result = 'loss'
LossResponse(cl) ==
  [NoResponse EXCEPT !.status = 200, !.success = TRUE, !.result = "loss",
                     !.betAmount = cl.betAmount, !.potentialWin = Num(0)]

\* What the construction of the transfer ends with (sendPayout's lines
\* before the first await): "built", or the message of the error thrown.
\* new PublicKey throws on a malformed address.  For a NaN amount
\* Math.floor(NaN) is NaN, and whether SystemProgram.transfer throws on it
\* depends on the library version: both outcomes are inputs.
BuildOutcomes(cl, pw) ==
  IF cl.playerWallet = "notAKey" THEN {"Invalid public key input"}
  ELSE IF pw.t = "NaN" THEN {"built", "Cannot convert NaN to a BigInt"}
  ELSE {"built"}

\* What an awaited call on the RPC node answers in sendPayout: "ok", or
\* the message of the error it rejected with ("" for an error without
\* message).
BlockhashAnswers == {"ok", "blockhash unavailable", ""}
BroadcastAnswers == {"ok", "Transaction simulation failed", ""}

\* (mutant) the round counted by the settlement itself
SettledAggregateCounted == [agg EXCEPT !.total_bets = @ + 1]

\* global_stats after the outcome is decided: the route imports no store
\* client and holds no reference to the statistics tables.
SettledAggregate == agg

Settle(c) ==
  /\ call[c].pc = "settle"
  /\ \E r \in RandomDraws :
       LET result == determineResult(r)
           pw == PotentialWin(call[c].betAmount)
           drawn == [call[c] EXCEPT !.status = "", !.draws = @ + 1,
                                    !.random = r,
                                    !.result = result,
                                    !.potentialWin = pw]
           loaded == [drawn EXCEPT !.keyLoads = @ + 1,
                                   !.keypair = getBankKeypair]
       IN  \E built \in BuildOutcomes(call[c], pw) :
             call' = [call EXCEPT ![c] =
               IF result # "win" THEN
                 [drawn EXCEPT !.pc = "done",
                               !.response = LossResponse(call[c])]
               ELSE IF ~getBankKeypair THEN
                 [loaded EXCEPT !.pc = "done",
                    !.response = PayoutPendingResponse(call[c], pw)]
               ELSE IF built # "built" THEN
                 [loaded EXCEPT !.pc = "done",
                    !.response = PayoutErrorResponse(call[c], pw, built)]
               ELSE [loaded EXCEPT !.pc = "blockhash"]]
  /\ agg' = SettledAggregate
  /\ UNCHANGED <<bankKey, ledger, info, chain, history, now, writer, reader,
                 writes, writeFailed, readFailed, clientVars>>

\* sendPayout: await connection.getLatestBlockhash('confirmed')
Blockhash(c) ==
  /\ call[c].pc = "blockhash"
  /\ \E answer \in BlockhashAnswers :
       call' = [call EXCEPT ![c] =
         IF answer = "ok" THEN [call[c] EXCEPT !.pc = "broadcast"]
         ELSE [call[c] EXCEPT !.pc = "done",
                 !.response = PayoutErrorResponse(call[c],
                                call[c].potentialWin, answer)]]
  /\ UNCHANGED <<bankKey, ledger, info, chain, statsVars, clientVars>>

\* (mutant) the node keeps one payout per reference, amount and address
PayoutOncePerReference(c) ==
  [by |-> CHOOSE d \in Calls : TRUE, nth |-> 1,
   reference |-> call[c].signature,
   to |-> call[c].playerWallet, amount |-> call[c].potentialWin]

\* The transfer sendRawTransaction hands to the node: from the bank to
\* winnerAddress, of amount.  by and nth tell the transfers apart (each
\* is signed over its own blockhash): the request slot that sent it, and
\* the number of transfers by that slot so far.  reference is the
\* reference of the request.
Payout(c) ==
  [by |-> c, nth |-> Cardinality({p \in ledger : p.by = c}) + 1,
   reference |-> call[c].signature,
   to |-> call[c].playerWallet, amount |-> call[c].potentialWin]

\* sendPayout: await connection.sendRawTransaction(...), and step 4 of POST.
Broadcast(c) ==
  /\ call[c].pc = "broadcast"
  /\ \E answer \in BroadcastAnswers :
       LET sent == [call[c] EXCEPT !.broadcasts = @ + 1,
                                   !.broadcastOn = call[c].connection,
                                   !.pc = "done"]
       IN  IF answer = "ok" THEN
             /\ call' = [call EXCEPT ![c] = [sent EXCEPT
                   !.response = PaidResponse(call[c], call[c].potentialWin)]]
             /\ ledger' = ledger \cup {Payout(c)}
           ELSE
             /\ call' = [call EXCEPT ![c] = [sent EXCEPT
                   !.response = PayoutErrorResponse(call[c],
                                  call[c].potentialWin, answer)]]
             /\ UNCHANGED ledger
  /\ UNCHANGED <<bankKey, info, chain, statsVars, clientVars>>

(***************************************************************************)
(* GET /api/play: health and static parameters.  The handler has no await. *)
(***************************************************************************)
NoInfo == [status |-> "", rpcEndpoints |-> 0, payoutEnabled |-> FALSE,
           fairness |-> "", fee |-> "", multiplier |-> ""]

\* (mutant) payouts reported enabled whatever the environment holds
InfoResponseAlwaysEnabled ==
  [status |-> "ok", rpcEndpoints |-> Cardinality(RPC_ENDPOINTS),
   payoutEnabled |-> TRUE, fairness |-> "50/50 - Open source verifiable",
   fee |-> "0%", multiplier |-> "2x"]

\* Lines 352-360; bankWallet, the configured address, is left out.
InfoResponse ==
  [status |-> "ok", rpcEndpoints |-> Cardinality(RPC_ENDPOINTS),
   payoutEnabled |-> getBankKeypair,
   fairness |-> "50/50 - Open source verifiable",
   fee |-> "0%", multiplier |-> "2x"]

GetInfo ==
  /\ info' = InfoResponse
  /\ UNCHANGED <<bankKey, call, ledger, chain, statsVars, clientVars>>

PlayNext ==
  \E c \in Calls :
    \/ Receive(c)
    \/ Probe(c)
    \/ Verify(c)
    \/ Settle(c)
    \/ Blockhash(c)
    \/ Broadcast(c)

(***************************************************************************)
(* The backing store.  global_stats holds at most the row id = 1;          *)
(* game_history only grows.  A row's timestamp is the handler's clock when *)
(* the row is built, before the insert is awaited: rows need not be        *)
(* inserted in the order of their timestamps, and two rows built within    *)
(* one tick of the clock carry the same timestamp.                         *)
(***************************************************************************)
Writers == {"w1", "w2"}
Results == {"", "win", "loss", "draw"}
\* absent, zero (present but falsy), and a wager that differs from the count
\* of one round
Amounts == {Undefined, Num(0), Num(2)}
\* publicKey?.toString() of the connected wallet
StatsWallets == {"walletA"}
\* What an awaited call on the store can do: answer with data, answer with
\* an error object, or throw.
StoreAnswers == {"data", "error", "throw"}

\* .limit(100) of readStats and .slice(0, 20) of GET
HistoryLimit == 100
RecentLimit == 20

NoRow == [present |-> FALSE, total_bets |-> 0, total_wagered |-> 0,
          wins |-> 0, losses |-> 0]
ZeroRow == [NoRow EXCEPT !.present = TRUE]

defaultStats == [totalBets |-> 0, totalWagered |-> 0, wins |-> 0,
                 losses |-> 0, gameHistory |-> <<>>]

\* Number(amount), for the amounts that pass validation
NumberOf(amount) == ToNumber(amount).v

Take(seq, n) == SubSeq(seq, 1, IF Len(seq) < n THEN Len(seq) ELSE n)

RECURSIVE SortDescending(_, _)
\* .order('timestamp', { ascending: false }) on the rows of the table at
\* the places idx, every row kept: the orders the store may answer them
\* in, as sequences of places.  The order among rows of equal timestamp
\* is open, for each timestamp by itself.
SortDescending(rows, idx) ==
  IF idx = {} THEN {<<>>}
  ELSE LET newest == {i \in idx : \A j \in idx :
                        rows[j].timestamp <= rows[i].timestamp}
       IN  UNION {{<<i>> \o order : order \in SortDescending(rows, idx \ {i})}
                    : i \in newest}

\* The orders of a select on game_history.
Orders == SortDescending(history, DOMAIN history)

Range(seq) == {seq[i] : i \in 1..Len(seq)}

\* readStats, lines 44-59: the rows select('*').order(...).limit(100)
\* answers, mapped to GameHistoryItem.
SelectHistory(order) ==
  LET places == Take(order, HistoryLimit)
  IN  [i \in 1..Len(places) |->
         [result |-> history[places[i]].result,
          amount |-> history[places[i]].amount,
          timestamp |-> history[places[i]].timestamp,
          playerWallet |-> history[places[i]].player_wallet]]

\* (mutant) a failed read answered with the counters read so far
ReadFailureKeepsRow(statsData) ==
  IF statsData.present THEN
    [totalBets |-> statsData.total_bets,
     totalWagered |-> statsData.total_wagered,
     wins |-> statsData.wins, losses |-> statsData.losses,
     gameHistory |-> <<>>]
  ELSE defaultStats

\* readStats, lines 38-41 and 72-75: what a failed read answers, statsData
\* being the row read before the failure (NoRow when none was)
ReadFailure(statsData) == defaultStats

\* readStats, lines 61-71
StatsOf(statsData, gameHistory) ==
  IF statsData.present THEN
    [totalBets |-> statsData.total_bets,
     totalWagered |-> statsData.total_wagered,
     wins |-> statsData.wins, losses |-> statsData.losses,
     gameHistory |-> gameHistory]
  ELSE [defaultStats EXCEPT !.gameHistory = gameHistory]

\* (mutant) every round counted as a win, a loss as a loss too
UpdatedStatsAlwaysWin(stats, result, amount) ==
  [totalBets |-> stats.totalBets + 1,
   totalWagered |-> stats.totalWagered + NumberOf(amount),
   wins |-> stats.wins + 1,
   losses |-> stats.losses + (IF result = "loss" THEN 1 ELSE 0),
   gameHistory |-> stats.gameHistory]

\* POST, lines 152-158
UpdatedStats(stats, result, amount) ==
  [totalBets |-> stats.totalBets + 1,
   totalWagered |-> stats.totalWagered + NumberOf(amount),
   wins |-> stats.wins + (IF result = "win" THEN 1 ELSE 0),
   losses |-> stats.losses + (IF result = "loss" THEN 1 ELSE 0),
   gameHistory |-> stats.gameHistory]

\* writeStats: the row the upsert stores
UpsertRow(stats) ==
  [present |-> TRUE, total_bets |-> stats.totalBets,
   total_wagered |-> stats.totalWagered, wins |-> stats.wins,
   losses |-> stats.losses]

\* (mutant) the outcome checked, the amount not
InvalidRequestNoAmount(result, amount) ==
  result = "" \/ (result # "win" /\ result # "loss")

\* POST, line 127
InvalidRequest(result, amount) ==
  result = "" \/ ~Truthy(amount) \/ (result # "win" /\ result # "loss")

NoStatsResponse == [status |-> 0, stats |-> defaultStats]

\* body: request.json() answered an object, whose fields are result, amount
\* and playerWallet below.  timestamp: the clock read when the row was
\* built, while the insert is on its way.  inserted, upserted: what the
\* insert and the upsert of this write answered, "" before; row: the place
\* in game_history of the row this write inserted.
IdleWriter == [pc |-> "idle", body |-> FALSE, result |-> "",
               amount |-> Undefined,
               playerWallet |-> "", statsData |-> NoRow, timestamp |-> 0,
               inserted |-> "", row |-> 0, upserted |-> "",
               stats |-> defaultStats, response |-> NoStatsResponse,
               base |-> NoRow, solo |-> FALSE]

IdleReader == [pc |-> "idle", statsData |-> NoRow, failed |-> "",
               response |-> NoStatsResponse]

InProgress(w) == writer[w].pc \notin {"idle", "done"}

NotSolo(wr) == [wr EXCEPT !.solo = FALSE, !.base = NoRow]

(***************************************************************************)
(* POST /api/stats up to its first await: validation.                      *)
(*   solo: no other write was in progress when this one began, none has    *)
(*         begun since, and no call of this write on the store has failed  *)
(*   base: the aggregate row when the write began, kept while solo         *)
(***************************************************************************)
\* The invocation w begins on a request: request.json() answered an
\* object of the fields r, a and p (parsed), or threw.
WriteStarts(w, parsed, r, a, p) ==
  /\ writes < MaxWrites
  /\ writes' = writes + 1
  /\ writer' =
       IF ~parsed THEN
         [writer EXCEPT ![w] = [IdleWriter EXCEPT !.pc = "done",
            !.response = [NoStatsResponse EXCEPT !.status = 500]]]
       ELSE IF InvalidRequest(r, a) THEN
         [writer EXCEPT ![w] = [IdleWriter EXCEPT !.pc = "done",
            !.body = TRUE, !.result = r, !.amount = a,
            !.response = [NoStatsResponse EXCEPT !.status = 400]]]
       ELSE
         [v \in Writers |->
            IF v = w THEN
              IF \A u \in Writers \ {w} : ~InProgress(u) THEN
                [IdleWriter EXCEPT !.pc = "read1Stats", !.body = TRUE,
                   !.result = r,
                   !.amount = a, !.playerWallet = p, !.base = agg,
                   !.solo = TRUE]
              ELSE
                [IdleWriter EXCEPT !.pc = "read1Stats", !.body = TRUE,
                   !.result = r,
                   !.amount = a, !.playerWallet = p]
            ELSE NotSolo(writer[v])]

StartWrite(w) ==
  /\ writer[w].pc = "idle"
  /\ \/ WriteStarts(w, FALSE, "", Undefined, "")
     \/ \E r \in Results, a \in Amounts, p \in StatsWallets :
          WriteStarts(w, TRUE, r, a, p)
  /\ UNCHANGED <<playVars, clientVars, agg, history, now, reader, writeFailed,
                 readFailed>>

(***************************************************************************)
(* readStats inside POST: the select on global_stats.                      *)
(***************************************************************************)
AfterRead(pc) == IF pc \in {"read1Stats", "read1History"} THEN "insert"
                 ELSE "done"

\* The timestamps of the rows of game_history, and of the rows on their
\* way to it.
Stamps ==
  {history[i].timestamp : i \in 1..Len(history)}
    \cup {writer[w].timestamp : w \in Writers}

\* new Date(): the clock has not passed on since its latest reading, or
\* it has.  The timestamps are compared and nothing else, so where no row
\* carries the latest reading a later one is that reading again.
Readings ==
  IF now = 0 THEN {1} ELSE IF now \in Stamps THEN {now, now + 1} ELSE {now}

\* The readings of the clock in the step that ends a readStats call at pc:
\* the first call is followed by the construction of the row (line 143).
ClockAfterRead(pc) == IF AfterRead(pc) = "insert" THEN Readings ELSE {now}

\* What POST does with the result of a readStats call, up to the next
\* await; t is the clock.
ReadDone(wr, stats, t) ==
  IF AfterRead(wr.pc) = "insert" THEN
    [wr EXCEPT !.pc = "insert", !.stats = stats, !.statsData = NoRow,
               !.timestamp = t]
  ELSE [wr EXCEPT !.pc = "done", !.statsData = NoRow,
          !.response = [status |-> 200, stats |-> stats]]

WriteReadStats(w) ==
  /\ writer[w].pc \in {"read1Stats", "read2Stats"}
  /\ \E answer \in StoreAnswers :
       IF answer = "data" THEN
         /\ writer' = [writer EXCEPT ![w] =
              [writer[w] EXCEPT !.statsData = agg,
                 !.pc = IF @ = "read1Stats" THEN "read1History"
                        ELSE "read2History"]]
         /\ UNCHANGED <<now, readFailed>>
       ELSE
         /\ \E t \in ClockAfterRead(writer[w].pc) :
              /\ writer' = [writer EXCEPT ![w] =
                   ReadDone(NotSolo(writer[w]), ReadFailure(NoRow), t)]
              /\ now' = t
         /\ readFailed' = TRUE
  /\ UNCHANGED <<playVars, clientVars, agg, history, reader, writes,
                 writeFailed>>

\* readStats inside POST: the select on game_history.
WriteReadHistory(w) ==
  /\ writer[w].pc \in {"read1History", "read2History"}
  /\ \E answer \in StoreAnswers, t \in ClockAfterRead(writer[w].pc) :
     \E order \in IF answer = "data" THEN Orders ELSE {<<>>} :
       /\ writer' = [writer EXCEPT ![w] =
            CASE answer = "data" ->
                   ReadDone(writer[w],
                            StatsOf(writer[w].statsData, SelectHistory(order)),
                            t)
              [] answer = "error" ->
                   ReadDone(NotSolo(writer[w]),
                            StatsOf(writer[w].statsData, <<>>), t)
              [] answer = "throw" ->
                   ReadDone(NotSolo(writer[w]),
                            ReadFailure(writer[w].statsData), t)]
       /\ now' = t
       /\ readFailed' = (readFailed \/ answer # "data")
  /\ UNCHANGED <<playVars, clientVars, agg, history, reader, writes,
                 writeFailed>>

\* The row POST inserts into game_history (lines 139-144).
HistoryRow(wr) ==
  [result |-> wr.result, amount |-> NumberOf(wr.amount),
   player_wallet |-> wr.playerWallet, timestamp |-> wr.timestamp]

\* (mutant) a table that keeps the newest row only
InsertReplacing(rows, row) == <<row>>

\* .from('game_history').insert(row): the table after the insert
Insert(rows, row) == Append(rows, row)

\* (mutant) an insert error answered like an exception
SwallowedNever(answer) == FALSE

\* Lines 146-149: historyError is logged and the handler goes on.
Swallowed(answer) == answer = "error"

\* POST: the insert into game_history.
InsertHistory(w) ==
  /\ writer[w].pc = "insert"
  /\ \E answer \in StoreAnswers :
       CASE answer = "data" ->
              /\ history' = Insert(history, HistoryRow(writer[w]))
              /\ writer' = [writer EXCEPT ![w].pc = "upsert",
                                          ![w].inserted = "data",
                                          ![w].timestamp = 0,
                                          ![w].row = Len(history) + 1]
              /\ UNCHANGED writeFailed
         [] answer # "data" /\ Swallowed(answer) ->
              /\ writer' = [writer EXCEPT ![w] =
                   [NotSolo(writer[w]) EXCEPT !.pc = "upsert",
                      !.timestamp = 0,
                      !.inserted = answer]]
              /\ writeFailed' = TRUE
              /\ UNCHANGED history
         [] answer # "data" /\ ~Swallowed(answer) ->
              /\ writer' = [writer EXCEPT ![w] =
                   [NotSolo(writer[w]) EXCEPT !.pc = "done",
                      !.timestamp = 0,
                      !.inserted = answer,
                      !.stats = defaultStats,
                      !.response = [NoStatsResponse EXCEPT !.status = 500]]]
              /\ writeFailed' = TRUE
              /\ UNCHANGED history
  /\ UNCHANGED <<playVars, clientVars, agg, now, reader, writes, readFailed>>

\* POST: writeStats(updatedStats), the upsert of the row id = 1.
Upsert(w) ==
  /\ writer[w].pc = "upsert"
  /\ \E answer \in StoreAnswers :
       IF answer = "data" THEN
         /\ agg' = UpsertRow(UpdatedStats(writer[w].stats, writer[w].result,
                                          writer[w].amount))
         /\ writer' = [writer EXCEPT ![w].pc = "read2Stats",
                                     ![w].upserted = "data",
                                     ![w].stats = defaultStats]
         /\ UNCHANGED writeFailed
       ELSE
         /\ writer' = [writer EXCEPT ![w] =
              [NotSolo(writer[w]) EXCEPT !.pc = "done",
                 !.upserted = answer,
                 !.stats = defaultStats,
                 !.response = [NoStatsResponse EXCEPT !.status = 500]]]
         /\ writeFailed' = TRUE
         /\ UNCHANGED agg
  /\ UNCHANGED <<playVars, clientVars, history, now, reader, writes, readFailed>>

\* The handler has answered; the next request reaches the server.
FinishWrite(w) ==
  /\ writer[w].pc = "done"
  /\ writer' = [writer EXCEPT ![w] = IdleWriter]
  /\ UNCHANGED <<playVars, clientVars, agg, history, now, reader, writes, writeFailed,
               readFailed>>

(***************************************************************************)
(* GET /api/stats.                                                         *)
(***************************************************************************)
\* (mutant) the history answered as readStats returned it
GetResponseUnbounded(stats) == [status |-> 200, stats |-> stats]

\* GET, lines 108-114
GetResponse(stats) ==
  [status |-> 200,
   stats |-> [stats EXCEPT !.gameHistory = Take(@, RecentLimit)]]

\* readStats inside GET: the select on global_stats.
GetReadStats ==
  /\ reader.pc = "idle"
  /\ \E answer \in StoreAnswers :
       reader' =
         IF answer = "data" THEN
           [IdleReader EXCEPT !.pc = "readHistory", !.statsData = agg]
         ELSE [IdleReader EXCEPT !.pc = "done", !.failed = "stats " \o answer,
                 !.response = GetResponse(ReadFailure(NoRow))]
  /\ UNCHANGED <<playVars, clientVars, agg, history, now, writer, writes, writeFailed,
                 readFailed>>

\* readStats inside GET: the select on game_history.
GetReadHistory ==
  /\ reader.pc = "readHistory"
  /\ \E answer \in StoreAnswers :
     \E order \in IF answer = "data" THEN Orders ELSE {<<>>} :
       reader' =
         CASE answer = "data" ->
                [reader EXCEPT !.pc = "done", !.statsData = NoRow,
                   !.response = GetResponse(StatsOf(reader.statsData,
                                                    SelectHistory(order)))]
           [] answer = "error" ->
                [reader EXCEPT !.pc = "done", !.failed = "history error",
                   !.statsData = NoRow,
                   !.response = GetResponse(StatsOf(reader.statsData, <<>>))]
           [] answer = "throw" ->
                [reader EXCEPT !.pc = "done", !.failed = "history throw",
                   !.statsData = NoRow,
                   !.response = GetResponse(ReadFailure(reader.statsData))]
  /\ UNCHANGED <<playVars, clientVars, agg, history, now, writer, writes, writeFailed,
                 readFailed>>

FinishRead ==
  /\ reader.pc = "done"
  /\ reader' = IdleReader
  /\ UNCHANGED <<playVars, clientVars, agg, history, now, writer, writes, writeFailed,
                 readFailed>>

WriteNext(w) ==
  \/ StartWrite(w)
  \/ WriteReadStats(w)
  \/ WriteReadHistory(w)
  \/ InsertHistory(w)
  \/ Upsert(w)
  \/ FinishWrite(w)

ReadNext ==
  \/ GetReadStats
  \/ GetReadHistory
  \/ FinishRead

\* Concurrent statistics writes.
WritersNext == \E w \in Writers : WriteNext(w)

\* Statistics reads beside the writes of one client.
ReadersNext == WriteNext("w1") \/ ReadNext

StatsNext == WritersNext \/ ReadNext

(***************************************************************************)
(* The page (src/app/components/CoinFlipGame.tsx).  playGame is the click  *)
(* handler of the play button; round[k] is one invocation of it.  The      *)
(* request round k sends to POST /api/play is handled by call[k], the one  *)
(* it sends to POST /api/stats by writer[WriterOf(k)].  The wallet is      *)
(* connected.  The bank's liquidity is what getBalance answered last: it   *)
(* fills the bet input in once (fetchBankLiquidity below) and is read      *)
(* again every 30 s, so that it does not limit the wager of a click.  The  *)
(* page reads the statistics (fetchGlobalStats, lines 49-72) on mount,     *)
(* every 5 s and after each post of saveGameResult (line 97): a GET        *)
(* /api/stats of the reader at any time, whose answer changes nothing      *)
(* below.                                                                  *)
(***************************************************************************)
Rounds == Calls
\* Rounds are numbered in the order of their clicks.
Earlier(k) == IF k = "c1" THEN {} ELSE {"c1"}
WriterOf(k) == IF k = "c1" THEN "w1" ELSE "w2"
\* Number(betAmount) || 0 of the bet input, in units of the default wager
\* of 0.1: 0 is the empty input, or a zero.
ClientBets == 0..MaxBet
\* NEXT_PUBLIC_BANK_WALLET_ADDRESS: left at the placeholder, or an address.
BankAddresses == {"placeholder", "bankWallet"}

\* received: the request has reached the statistics route.
NoPost == [sent |-> FALSE, result |-> "", amount |-> 0, playerWallet |-> "",
           received |-> FALSE]

\* pc: the await (or timer) the invocation waits at.  transfers: wager
\* transfers the wallet has submitted for it.  confirmation: the answer of
\* confirmTransaction.  settlementCalls: requests sent to /api/play;
\* request: "sent" while the request is on its way, "received" once the
\* route has it.  fetchError: the name of the error the request was
\* rejected with.  status, data: the answer that arrived; parsed: its body
\* was read.  finished: finishGame has run, with the argument shown.
\* posted: the body saveGameResult sent to /api/stats.  ended: how the
\* invocation ended.
IdleRound == [pc |-> "idle", betAmountNum |-> 0, signature |-> "",
              transfers |-> 0, confirmation |-> "", settlementCalls |-> 0,
              request |-> "", fetchError |-> "", status |-> 0,
              data |-> NoResponse, parsed |-> FALSE,
              finished |-> FALSE,
              shown |-> "", posted |-> NoPost, ended |-> ""]

\* The state of the component at its first render (lines 37-45 and 140).
\* hasSetInitialBet: the ref of line 140.
InitialUi == [betAmount |-> 1, isSpinning |-> FALSE, transactionStatus |-> "",
              errorMessage |-> "", gameResult |-> "",
              hasSetInitialBet |-> FALSE]

\* Bank liquidity is counted in units of 0.00001 SOL.
\* Line 111: the bank liquidity of the demo mode, 100 SOL.
DemoLiquidity == 100 * 100000
\* What getBalance answers: nothing (which stands for a call that failed
\* as well, line 120), less than 0.001 SOL, or whole SOL.
Balances == {0, 1} \cup {100000 * n : n \in 1..MaxBet}

\* Lines 137 and 144: Math.floor(maxBet * 10000) / 10000 with maxBet =
\* bankLiquidity * 0.1, in units of the default wager of 0.1.
SuggestedBet(bankLiquidity) == (bankLiquidity \div 100) \div 1000

\* Lines 139-148: the effect that fills the bet input in, once, when the
\* liquidity is loaded and maxBet > 0.
AutoFill(u, bankLiquidity) ==
  IF bankLiquidity > 0 /\ ~u.hasSetInitialBet
  THEN [u EXCEPT !.betAmount = SuggestedBet(bankLiquidity),
                 !.hasSetInitialBet = TRUE]
  ELSE u

\* The component once mounted (lines 127-134): in demo mode
\* fetchBankLiquidity has no await and the effect has run before the
\* first event.
Mounted(address) ==
  IF address = "placeholder" THEN AutoFill(InitialUi, DemoLiquidity)
  ELSE InitialUi

\* Lines 104-125: a call of fetchBankLiquidity (at mount, every 30 s and
\* in finishGame) has its balance, and the effect of lines 141-147 runs.
\* The effect leaves errorMessage and does not look at isSpinning.
fetchBankLiquidity ==
  /\ ui' \in {AutoFill(ui, bankLiquidity) :
               bankLiquidity \in IF bankAddress = "placeholder"
                                 THEN {DemoLiquidity} ELSE Balances}
  /\ UNCHANGED <<playVars, statsVars, bankAddress, round>>

\* Lines 564-570: onChange of the bet input, which is disabled while the
\* coin spins.  A text of the same number ("0.10" for "0.1") is a change
\* too.
EditBet ==
  /\ ~ui.isSpinning
  /\ \E value \in ClientBets :
       ui' = [ui EXCEPT !.betAmount = value, !.errorMessage = ""]
  /\ UNCHANGED <<playVars, statsVars, bankAddress, round>>

\* Lines 571-576: onBlur of the bet input.
BlurBet ==
  /\ ui.betAmount = 0
  /\ ui' = [ui EXCEPT !.betAmount = 1]
  /\ UNCHANGED <<playVars, statsVars, bankAddress, round>>

\* Lines 284-289.
startSpinAnimation(u) == [u EXCEPT !.isSpinning = TRUE, !.gameResult = ""]

\* What sendTransaction rejects with when the transfer is not approved:
\* the texts of the wallet adapters for a rejection by the user, a text
\* that differs from them in case, and an error without a message.
WalletErrors == {"User rejected the request", "User rejected the request.",
                 "WalletSendTransactionError: User rejected",
                 "user rejected the request", ""}

\* Line 276: error.message?.includes('User rejected'), on the texts the
\* page catches: the ones that have 'User rejected' in them, in these
\* letters.
IncludesUserRejected(message) ==
  message \in {"User rejected the request", "User rejected the request.",
               "WalletSendTransactionError: User rejected"}

\* Lines 271-281: the outer catch of playGame.
Caught(u, message) ==
  [u EXCEPT !.isSpinning = FALSE, !.transactionStatus = "",
            !.errorMessage = IF IncludesUserRejected(message)
                             THEN "Transaction cancelled"
                             ELSE IF message = "" THEN "Transaction failed"
                             ELSE message]

Failed(k, message) ==
  /\ ui' = Caught(ui, message)
  /\ round' = [round EXCEPT ![k].pc = "done", ![k].ended = "error"]

\* Lines 82-93: the body saveGameResult posts to /api/stats.
saveGameResult(result, amount) ==
  [sent |-> TRUE, result |-> result, amount |-> amount,
   playerWallet |-> "walletA", received |-> FALSE]

\* Lines 291-311: finishGame(result) in the invocation rd; "" is an absent
\* result (undefined).
finishGame(rd, result) ==
  [rd EXCEPT !.pc = "done", !.ended = "result", !.finished = TRUE,
             !.shown = result,
             !.posted = IF result # ""
                        THEN saveGameResult(result, rd.betAmountNum)
                        ELSE NoPost]

\* (mutant) a confirmation is taken as good whatever it carries
ConfirmationFailedNever(answer) == FALSE

\* Lines 216-218: confirmation.value.err
ConfirmationFailed(answer) == answer = "err"

\* (mutant) an aborted request handled like any other failure
IsAbortNever(name) == FALSE

\* Line 258: fetchError.name === 'AbortError'
IsAbort(name) == name = "AbortError"

\* Line 245: data.error || 'Failed to determine result'
SettlementErrorText(error) ==
  IF error = "" THEN "Failed to determine result" ELSE error

\* Lines 159-181: the click, up to the first await.  The button is
\* disabled, and the guard of line 160 returns, while the coin spins or
\* the wager is not positive.
playGame(k) ==
  /\ round[k].pc = "idle"
  /\ \A j \in Earlier(k) : round[j].pc # "idle"
  /\ ~ui.isSpinning
  /\ ui.betAmount > 0
  /\ IF bankAddress = "placeholder" THEN
       /\ ui' = startSpinAnimation([ui EXCEPT !.errorMessage = "",
                  !.transactionStatus = "Demo mode - starting game..."])
       /\ round' = [round EXCEPT ![k].pc = "demo",
                                 ![k].betAmountNum = ui.betAmount]
     ELSE
       /\ ui' = [ui EXCEPT !.errorMessage = "",
                   !.transactionStatus = "Preparing transaction..."]
       /\ round' = [round EXCEPT ![k].pc = "blockhash",
                                 ![k].betAmountNum = ui.betAmount]
  /\ UNCHANGED <<playVars, statsVars, bankAddress>>

\* Lines 174-179: the timer of the demo mode.
DemoTimer(k) ==
  /\ round[k].pc = "demo"
  /\ \E r \in RandomDraws :
       round' = [round EXCEPT ![k] = finishGame(round[k], determineResult(r))]
  /\ ui' = [ui EXCEPT !.isSpinning = FALSE,
                      !.gameResult = round'[k].shown]
  /\ UNCHANGED <<playVars, statsVars, bankAddress>>

\* Line 196: await connection.getLatestBlockhash()
GotBlockhash(k) ==
  /\ round[k].pc = "blockhash"
  /\ \E ok \in BOOLEAN :
       IF ok THEN
         /\ ui' = [ui EXCEPT
                     !.transactionStatus = "Please approve the transaction..."]
         /\ round' = [round EXCEPT ![k].pc = "approve"]
       ELSE Failed(k, "failed to get recent blockhash")
  /\ UNCHANGED <<playVars, statsVars, bankAddress>>

\* Lines 203-211: await sendTransaction(transaction, connection); the
\* wallet submits the transfer, or the user rejects it.
Approved(k) ==
  /\ round[k].pc = "approve"
  /\ \/ /\ ui' = startSpinAnimation([ui EXCEPT
                    !.transactionStatus = "Transaction sent, confirming..."])
        /\ round' = [round EXCEPT ![k].pc = "confirm",
                                  ![k].signature = "sigA",
                                  ![k].transfers = @ + 1]
     \/ \E message \in WalletErrors : Failed(k, message)
  /\ UNCHANGED <<playVars, statsVars, bankAddress>>

\* Lines 214-239: await connection.confirmTransaction(signature), and the
\* request to /api/play sent after it.
Confirmed(k) ==
  /\ round[k].pc = "confirm"
  /\ \E answer \in {"ok", "err", "throw"} :
       IF answer = "throw" THEN
         /\ ui' = Caught(ui, "confirmation timed out")
         /\ round' = [round EXCEPT ![k].pc = "done", ![k].ended = "error",
                                   ![k].confirmation = answer]
       ELSE IF ConfirmationFailed(answer) THEN
         /\ ui' = Caught(ui, "Transaction failed")
         /\ round' = [round EXCEPT ![k].pc = "done", ![k].ended = "error",
                                   ![k].confirmation = answer]
       ELSE
         /\ ui' = [ui EXCEPT !.transactionStatus =
                     "Transaction confirmed! Determining result..."]
         /\ round' = [round EXCEPT ![k].pc = "fetch",
                                   ![k].confirmation = answer,
                                   ![k].settlementCalls = @ + 1,
                                   ![k].request = "sent"]
  /\ UNCHANGED <<playVars, statsVars, bankAddress>>

\* The request of round k reaches POST /api/play (layout.tsx, lines
\* 216-243): its body is the one of lines 233-237.
RequestArrives(k) ==
  /\ round[k].request = "sent"
  /\ call[k].pc = "idle"
  /\ call' = [call EXCEPT ![k] =
       Received(call[k], "", round[k].signature, "walletA",
                Num(round[k].betAmountNum))]
  /\ round' = [round EXCEPT ![k].request = "received"]
  /\ UNCHANGED <<bankKey, ledger, info, chain, statsVars, bankAddress, ui>>

\* Lines 227-240: the answer of /api/play has arrived; the timer of the
\* abort is cleared.
FetchResolved(k) ==
  /\ round[k].pc = "fetch"
  /\ round[k].request = "received"
  /\ call[k].pc = "done"
  /\ round' = [round EXCEPT ![k].pc = "json",
                            ![k].status = call[k].response.status,
                            ![k].data = call[k].response]
  /\ UNCHANGED <<playVars, statsVars, bankAddress, ui>>

\* Lines 223-224 and 257-269: the request did not resolve.  The timer
\* aborts it after 25 s, wherever the request or the server's handler has
\* got to by then; or the network fails.
FetchRejected(k) ==
  /\ round[k].pc = "fetch"
  /\ \E name \in {"AbortError", "TypeError"} :
       IF IsAbort(name) THEN
         /\ ui' = [ui EXCEPT !.transactionStatus =
                     "Response timeout - check your wallet for result"]
         /\ round' = [round EXCEPT ![k].pc = "timeout",
                                   ![k].fetchError = name]
       ELSE
         /\ ui' = Caught(ui, "Failed to fetch")
         /\ round' = [round EXCEPT ![k].pc = "done", ![k].ended = "error",
                                   ![k].fetchError = name]
  /\ UNCHANGED <<playVars, statsVars, bankAddress>>

\* Lines 261-264: the timer set on the abort, 3 s later.
TimeoutTimer(k) ==
  /\ round[k].pc = "timeout"
  /\ ui' = [ui EXCEPT !.isSpinning = FALSE, !.transactionStatus = ""]
  /\ round' = [round EXCEPT ![k].pc = "done", ![k].ended = "timeout"]
  /\ UNCHANGED <<playVars, statsVars, bankAddress>>

\* Lines 242-255: await response.json(), which rejects on a body that is
\* no JSON, and the check of response.ok.
BodyRead(k) ==
  /\ round[k].pc = "json"
  /\ \E parsed \in BOOLEAN :
       IF ~parsed THEN
         /\ ui' = Caught(ui, "Unexpected end of JSON input")
         /\ round' = [round EXCEPT ![k].pc = "done", ![k].ended = "error"]
       ELSE IF round[k].status # 200 THEN
         /\ ui' = Caught(ui, SettlementErrorText(round[k].data.error))
         /\ round' = [round EXCEPT ![k].pc = "done", ![k].ended = "error",
                                   ![k].parsed = TRUE]
       ELSE
         /\ round' = [round EXCEPT ![k].pc = "result", ![k].parsed = TRUE]
         /\ UNCHANGED ui
  /\ UNCHANGED <<playVars, statsVars, bankAddress>>

\* Lines 252-255: the timer that ends the animation.
ResultTimer(k) ==
  /\ round[k].pc = "result"
  /\ round' = [round EXCEPT ![k] = finishGame(round[k], round[k].data.result)]
  /\ ui' = [ui EXCEPT !.isSpinning = FALSE, !.transactionStatus = "",
                      !.gameResult = round[k].data.result]
  /\ UNCHANGED <<playVars, statsVars, bankAddress>>

\* The request saveGameResult sent for round k reaches POST /api/stats
\* (route.ts, lines 122-134).
PostArrives(k) ==
  /\ round[k].posted.sent /\ ~round[k].posted.received
  /\ writer[WriterOf(k)].pc = "idle"
  /\ WriteStarts(WriterOf(k), TRUE, round[k].posted.result,
                 Num(round[k].posted.amount), round[k].posted.playerWallet)
  /\ round' = [round EXCEPT ![k].posted.received = TRUE]
  /\ UNCHANGED <<playVars, agg, history, now, reader, writeFailed, readFailed,
                 bankAddress, ui>>

\* The settlement handler has answered; the next request reaches the server.
FinishCall(c) ==
  /\ call[c].pc = "done"
  /\ call' = [call EXCEPT ![c] = IdleCall]
  /\ UNCHANGED <<bankKey, ledger, info, chain, statsVars, clientVars>>

ClientStep(k) ==
  \/ playGame(k)
  \/ DemoTimer(k)
  \/ GotBlockhash(k)
  \/ Approved(k)
  \/ Confirmed(k)
  \/ FetchResolved(k)
  \/ FetchRejected(k)
  \/ TimeoutTimer(k)
  \/ BodyRead(k)
  \/ ResultTimer(k)

\* The settlement route's steps on the request of a round.
ServerStep(c) ==
  \/ Probe(c)
  \/ Verify(c)
  \/ Settle(c)
  \/ Blockhash(c)
  \/ Broadcast(c)

\* The statistics route's steps on the request of a round.
WriteStep(w) ==
  \/ WriteReadStats(w)
  \/ WriteReadHistory(w)
  \/ InsertHistory(w)
  \/ Upsert(w)

\* One round, from the click to the last step of the server on it.
RoundStep(k) ==
  \/ ClientStep(k)
  \/ RequestArrives(k)
  \/ ServerStep(k)
  \/ PostArrives(k)
  \/ WriteStep(WriterOf(k))

\* The two routes of the page's wager: the click, the transfer and the
\* settlement, without the statistics route.
WagerStep(k) ==
  \/ ClientStep(k)
  \/ RequestArrives(k)
  \/ ServerStep(k)

ClientNext ==
  \/ EditBet
  \/ BlurBet
  \/ fetchBankLiquidity
  \/ \E k \in Rounds : RoundStep(k)
  \/ ReadNext

(***************************************************************************)
(* The server after deployment: no request yet; global_stats holds the     *)
(* zero row of the setup script, or no row where the script was not run.   *)
(***************************************************************************)
Init ==
  /\ bankKey \in KeyConfigs
  /\ call = [c \in Calls |-> IdleCall]
  /\ ledger = {}
  /\ info = NoInfo
  /\ chain \in Transfers
  /\ agg \in {NoRow, ZeroRow}
  /\ history = <<>>
  /\ now = 0
  /\ writer = [w \in Writers |-> IdleWriter]
  /\ reader = IdleReader
  /\ writes = 0
  /\ writeFailed = FALSE
  /\ readFailed = FALSE
  /\ bankAddress \in BankAddresses
  /\ ui = Mounted(bankAddress)
  /\ round = [k \in Rounds |-> IdleRound]

Next ==
  \/ PlayNext
  \/ \E c \in Calls : FinishCall(c)
  \/ GetInfo
  \/ StatsNext
  \/ ClientNext

Spec == Init /\ [][Next]_vars

\* The settlement endpoint alone, on a deployed store.
PlayInit ==
  Init /\ agg = ZeroRow /\ chain = WagerTransfer /\ bankAddress = "bankWallet"
PlaySpec == PlayInit /\ [][PlayNext]_vars

\* The settlement endpoint, whatever the chain holds under the reference.
TrustInit ==
  Init /\ agg = ZeroRow /\ bankKey = "base58" /\ bankAddress = "bankWallet"
TrustSpec == TrustInit /\ [][PlayNext]_vars

\* The statistics accessor alone: its answers never read the custodial key.
StatsInit ==
  Init /\ bankKey = "unset" /\ chain = WagerTransfer
       /\ bankAddress = "bankWallet"
WriteSpec == StatsInit /\ [][WritersNext]_vars
ReadSpec == StatsInit /\ [][ReadersNext]_vars


(***************************************************************************)
(* Statistics reads on a store that earlier rounds have filled.  The       *)
(* timestamp of a row is the clock of the server instance that inserted    *)
(* it, so the order of insertion need not be the order of the timestamps:  *)
(* the n rows carry the timestamps 1..n in ascending order, in descending  *)
(* order, or in either order rotated by some shift.  Rows stamped in the   *)
(* same millisecond carry the same timestamp: where the history is tied,   *)
(* the timestamps are 1, 1, 2, 2, ... instead.                             *)
(***************************************************************************)
StoredTimestamp(n, i, shift, ascending, tied) ==
  LET k == ((i - 1 + shift) % n) + 1
      t == IF ascending THEN k ELSE n + 1 - k
  IN  IF tied THEN (t + 1) \div 2 ELSE t

StoredHistory(n, shift, ascending, tied) ==
  [i \in 1..n |->
     [result |-> IF i % 3 = 1 THEN "win" ELSE "loss", amount |-> 2,
      player_wallet |-> "walletA",
      timestamp |-> StoredTimestamp(n, i, shift, ascending, tied)]]

StoredHistories ==
  {<<>>} \cup
  {StoredHistory(n, shift, ascending, tied) :
     n \in 1..MaxRows, shift \in 0..(MaxRows - 1), ascending \in BOOLEAN,
     tied \in BOOLEAN}

\* The aggregate row after the rounds of rows were counted one by one.
StoredAggregate(rows) ==
  [present |-> TRUE, total_bets |-> Len(rows),
   total_wagered |-> 2 * Len(rows),
   wins |-> (Len(rows) + 2) \div 3,
   losses |-> Len(rows) - ((Len(rows) + 2) \div 3)]

HistoryInit ==
  /\ bankKey = "unset"
  /\ call = [c \in Calls |-> IdleCall]
  /\ ledger = {}
  /\ info = NoInfo
  /\ chain = WagerTransfer
  /\ history \in StoredHistories
  /\ agg = StoredAggregate(history)
  /\ now = MaxRows
  /\ writer = [w \in Writers |-> IdleWriter]
  /\ reader = IdleReader
  /\ writes = 0
  /\ writeFailed = FALSE
  /\ readFailed = FALSE
  /\ bankAddress = "bankWallet"
  /\ ui = InitialUi
  /\ round = [k \in Rounds |-> IdleRound]

HistorySpec == HistoryInit /\ [][ReadNext]_vars

(***************************************************************************)
(* The routes of the server side by side, the steps of their handlers in   *)
(* any order.  The store holds the rounds of the MaxWrites - 1 requests to *)
(* POST /api/stats answered before, which came one after the other.        *)
(* ServerSpec: one request to POST /api/play, the requests of one client   *)
(* to POST /api/stats and the requests to GET /api/play.  StoreSpec: one   *)
(* request to POST /api/play of a server that holds a custodial key, the   *)
(* requests of one client to POST /api/stats and the requests to GET       *)
(* /api/stats.                                                             *)
(***************************************************************************)
PlayStep(c) ==
  \/ Receive(c)
  \/ Probe(c)
  \/ Verify(c)
  \/ Settle(c)
  \/ Blockhash(c)
  \/ Broadcast(c)

ServerInit ==
  /\ bankKey \in {"unset", "base58"}
  /\ call = [c \in Calls |-> IdleCall]
  /\ ledger = {}
  /\ info = NoInfo
  /\ chain = WagerTransfer
  /\ history = StoredHistory(MaxWrites - 1, 0, TRUE, FALSE)
  /\ agg = StoredAggregate(history)
  /\ now = MaxWrites - 1
  /\ writer = [w \in Writers |-> IdleWriter]
  /\ reader = IdleReader
  /\ writes = MaxWrites - 1
  /\ writeFailed = FALSE
  /\ readFailed = FALSE
  /\ bankAddress = "bankWallet"
  /\ ui = InitialUi
  /\ round = [k \in Rounds |-> IdleRound]

ServerNext ==
  \/ PlayStep("c1")
  \/ WriteNext("w1")
  \/ GetInfo

ServerSpec == ServerInit /\ [][ServerNext]_vars

StoreInit == ServerInit /\ bankKey = "base58"

StoreNext ==
  \/ PlayStep("c1")
  \/ WriteNext("w1")
  \/ ReadNext

StoreSpec == StoreInit /\ [][StoreNext]_vars

(***************************************************************************)
(* The page with the server behind it.  RoundSpec: one click on the play   *)
(* button, and everything that follows from it on the page and in the two  *)
(* routes.  ClientSpec: up to two clicks at the wager the input starts     *)
(* with, and the settlement route; the requests to the statistics route    *)
(* stay on their way.                                                      *)
(***************************************************************************)
RoundInit ==
  Init /\ bankKey \in {"unset", "base58"} /\ chain = WagerTransfer
       /\ agg = ZeroRow
RoundNext ==
  EditBet \/ BlurBet \/ fetchBankLiquidity \/ RoundStep("c1") \/ ReadNext
RoundSpec == RoundInit /\ [][RoundNext]_vars

ClientInit ==
  Init /\ bankKey = "base58" /\ chain = WagerTransfer /\ agg = ZeroRow
WagerNext == \E k \in Rounds : WagerStep(k)
ClientSpec == ClientInit /\ [][WagerNext]_vars

(***************************************************************************)
(* Properties of the settlement endpoint (PlaySpec).                       *)
(***************************************************************************)
\* The body passed validation and the reference passed verification.
Admitted(c) ==
  /\ call[c].body
  /\ call[c].signature # "" /\ call[c].playerWallet # ""
  /\ call[c].betAmount # Undefined /\ ~LeqZero(call[c].betAmount)
  /\ call[c].lookups = 1 /\ ~call[c].statusErr

Answered(c) == call[c].pc = "done"

\* C1: every answer to a request that passed validation and verification
\* carries result win or loss, with potentialWin 0 on a loss and exactly
\* twice the request's betAmount on a win.
C1_PayoutIsZeroOrDouble ==
  \A c \in Calls :
    (Answered(c) /\ Admitted(c)) =>
      LET resp == call[c].response
      IN  /\ resp.result \in {"win", "loss"}
          /\ resp.result = "loss" => resp.potentialWin = Num(0)
          /\ resp.result = "win" =>
               /\ call[c].betAmount.t = "number"
               /\ resp.potentialWin = Num(2 * call[c].betAmount.v)

\* A body in which a field is missing or the amount is not positive.
C2_Invalid(c) ==
  /\ call[c].body
  /\ \/ call[c].signature = ""
     \/ call[c].playerWallet = ""
     \/ call[c].betAmount = Undefined
     \/ (call[c].betAmount.t = "number" /\ call[c].betAmount.v <= 0)

\* C2: a request in which signature, playerWallet or betAmount is missing,
\* or betAmount <= 0, is answered 400, and no liveness probe, status
\* lookup, random draw or payout broadcast has taken place.
C2_InvalidRejectedBeforeEffects ==
  \A c \in Calls :
    C2_Invalid(c) =>
      /\ Answered(c)
      /\ call[c].response.status = 400
      /\ call[c].probes = 0 /\ call[c].lookups = 0
      /\ call[c].draws = 0 /\ call[c].broadcasts = 0

C2_Witness ==
  \E c \in Calls :
    /\ Answered(c) /\ call[c].body
    /\ call[c].signature = "sigA" /\ call[c].playerWallet = "walletA"
    /\ call[c].betAmount = Num(-1)
    /\ call[c].response.status = 400

\* C3: when the status lookup finds a status that marks failure, the round
\* is answered with an error, and no random draw is made, no custodial key
\* is loaded and no payout broadcast is attempted.
C3_FailedTransferRejected ==
  \A c \in Calls :
    call[c].statusErr =>
      /\ Answered(c)
      /\ call[c].response.status = 400
      /\ call[c].response.error # "" /\ ~call[c].response.success
      /\ call[c].response.result = ""
      /\ call[c].draws = 0 /\ call[c].keyLoads = 0
      /\ call[c].broadcasts = 0
      /\ \A p \in ledger : p.by # c

C3_Witness ==
  \E c \in Calls :
    /\ call[c].statusErr /\ call[c].lookups = 1 /\ Answered(c)
    /\ call[c].betAmount = Num(2)

\* The discriminators of a win response that are set.
Discriminators(resp) ==
  {d \in {"payoutSignature", "payoutPending", "payoutError"} :
     CASE d = "payoutSignature" -> resp.payoutSignature # ""
       [] d = "payoutPending" -> resp.payoutPending
       [] d = "payoutError" -> resp.payoutError # ""}

\* C4: once a round has drawn win, its answer is success-shaped (status 200,
\* success, result win) and carries exactly one of payoutSignature,
\* payoutPending and payoutError; no key or payout failure makes it an
\* error answer.
C4_WinAlwaysSuccessShaped ==
  \A c \in Calls :
    (call[c].result = "win" /\ Answered(c)) =>
      LET resp == call[c].response
      IN  /\ resp.status = 200 /\ resp.success /\ resp.error = ""
          /\ resp.result = "win"
          /\ Cardinality(Discriminators(resp)) = 1
          /\ resp.payoutPending <=> ~call[c].keypair
          /\ resp.payoutSignature # "" <=> (\E p \in ledger : p.by = c)

\* Both degraded shapes and the paid one happen: here a payout that failed
\* at the broadcast, beside a paid one.
C4_Witness ==
  \E c, d \in Calls :
    /\ Answered(c) /\ call[c].result = "win"
    /\ call[c].broadcasts = 1 /\ call[c].response.payoutError # ""
    /\ Answered(d) /\ call[d].result = "win"
    /\ call[d].response.payoutSignature # ""

\* C5: a payout is broadcast only in an invocation whose outcome is win and
\* which obtained a custodial key; after a loss, a rejection, or with the
\* key missing or unparseable there is none; and no invocation broadcasts
\* more than once.
C5_BroadcastOnlyOnWinWithKey ==
  /\ \A c \in Calls :
       /\ call[c].broadcasts <= 1
       /\ call[c].broadcasts = 1 =>
            /\ call[c].result = "win"
            /\ bankKey \in {"base58", "jsonArray"}
            /\ Admitted(c)
       /\ (Answered(c) /\ call[c].response.status # 200) =>
            call[c].broadcasts = 0
       /\ call[c].pc = "broadcast" =>
            call[c].result = "win" /\ bankKey \in {"base58", "jsonArray"}
  /\ \A p \in ledger : call[p.by].broadcasts = 1
  /\ Cardinality(ledger) <= Cardinality(Calls)

C5_Witness ==
  \E c \in Calls :
    /\ call[c].broadcasts = 1 /\ Answered(c)
    /\ call[c].response.payoutError # ""
    /\ ledger = {}

(***************************************************************************)
(* Properties of the statistics accessor (WriteSpec, ReadSpec).            *)
(***************************************************************************)
Quiescent == \A w \in Writers : ~InProgress(w)

RECURSIVE SumOfAmounts(_)
SumOfAmounts(rows) ==
  IF rows = <<>> THEN 0 ELSE Head(rows).amount + SumOfAmounts(Tail(rows))

\* The row of game_history with the largest timestamp.
NewestRow == CHOOSE x \in Range(history) :
               \A y \in Range(history) : y.timestamp <= x.timestamp

\* C6: two concurrent writes, one win and one loss, started from the zero
\* aggregate state, leave the aggregate at totalBets 2, wins 1, losses 1,
\* whatever the interleaving of their steps.
C6_ConcurrentWritesBothCounted ==
  ( /\ writes = 2 /\ ~writeFailed /\ ~readFailed
    /\ \A w \in Writers : writer[w].pc = "done"
                          /\ writer[w].response.status = 200
    /\ {writer[w].result : w \in Writers} = {"win", "loss"} )
  => (agg.total_bets = 2 /\ agg.wins = 1 /\ agg.losses = 1)

\* C7: a valid write {o, a} executed alone and without store failure on the
\* aggregate S leaves totalBets = S.totalBets + 1, totalWagered =
\* S.totalWagered + a, o's counter one higher and the other unchanged; the
\* newest history row, and the first entry of the history the answer
\* carries with that snapshot, is {o, a}.
C7_LoneWriteCounted ==
  \A w \in Writers :
    (writer[w].pc = "done" /\ writer[w].solo) =>
      LET wr == writer[w]
          S == wr.base
          a == wr.amount.v
          snap == wr.response.stats
      IN  /\ wr.result \in {"win", "loss"} /\ wr.amount.t = "number"
          /\ wr.response.status = 200
          /\ agg.present
          /\ agg.total_bets = S.total_bets + 1
          /\ agg.total_wagered = S.total_wagered + a
          /\ agg.wins = S.wins + (IF wr.result = "win" THEN 1 ELSE 0)
          /\ agg.losses = S.losses + (IF wr.result = "loss" THEN 1 ELSE 0)
          /\ history # <<>>
          /\ NewestRow.result = wr.result /\ NewestRow.amount = a
          /\ snap.totalBets = agg.total_bets
          /\ snap.totalWagered = agg.total_wagered
          /\ snap.wins = agg.wins /\ snap.losses = agg.losses
          /\ snap.gameHistory # <<>>
          /\ Head(snap.gameHistory).result = wr.result
          /\ Head(snap.gameHistory).amount = a
          /\ Head(snap.gameHistory).timestamp = NewestRow.timestamp

\* C8: in every state of the store wins + losses = totalBets, whatever the
\* interleaving of the writes and whichever of their selects, inserts and
\* upserts fail.
C8_WinsPlusLossesIsTotal == agg.wins + agg.losses = agg.total_bets

\* Two writes are over, one of them swallowed by an overlap or by a masked
\* read, after failures of a select and of a write.
C8_Witness ==
  /\ writes = 2 /\ Quiescent /\ readFailed /\ writeFailed
  /\ Len(history) = 2 /\ agg.total_bets = 1

\* C9: if no insert and no upsert has failed, then whenever no write is in
\* progress totalWagered is the sum of the amounts of the history rows.
C9_WageredIsHistorySum ==
  (~writeFailed /\ Quiescent) => agg.total_wagered = SumOfAmounts(history)

\* C10: GET never answers an error; on an empty store it answers the zero
\* counters and an empty history; when the aggregate select reports an
\* error or a select throws, it answers the same zero-valued default.
C10_ReadAnswersDefault ==
  reader.pc = "done" =>
    /\ reader.response.status = 200
    /\ (~agg.present /\ history = <<>>) =>
         reader.response.stats = defaultStats
    /\ reader.failed \in {"stats error", "stats throw", "history throw"} =>
         reader.response.stats = defaultStats

\* The history select throws after the aggregate row, with a bet counted,
\* was read.
C10_Witness ==
  /\ reader.pc = "done" /\ reader.failed = "history throw"
  /\ agg.total_bets >= 1 /\ history # <<>>
  /\ reader.response.stats = defaultStats

\* A parsed body whose outcome is not exactly win or loss, or without amount.
C11_Invalid(wr) ==
  wr.body /\ (wr.result \notin {"win", "loss"} \/ wr.amount = Undefined)

\* C11: a statistics write whose outcome is not exactly win or loss, or
\* whose amount is absent, is answered 400 at once (it never reaches a call
\* on the store), and the step that answers it appends no history row and
\* leaves the aggregate row as it was.
C11_InvalidWriteRejected ==
  /\ [](\A w \in Writers :
         C11_Invalid(writer[w]) =>
           writer[w].pc = "done" /\ writer[w].response.status = 400)
  /\ [][\A w \in Writers :
         (C11_Invalid(writer'[w]) /\ writer'[w] # writer[w]) =>
           /\ writer[w].pc = "idle"
           /\ agg' = agg /\ history' = history]_vars

\* An outcome that is neither win nor loss, rejected on a store that holds
\* a counted round.
C11_Witness ==
  \E w \in Writers :
    /\ writer[w].pc = "done" /\ writer[w].body
    /\ writer[w].result = "draw" /\ writer[w].amount = Num(2)
    /\ writer[w].response.status = 400
    /\ agg.total_bets = 1 /\ Len(history) = 1

\* The rows of the store, as a statistics read reports them.
C12_Reported ==
  [i \in 1..Len(history) |->
     [result |-> history[i].result, amount |-> history[i].amount,
      timestamp |-> history[i].timestamp,
      playerWallet |-> history[i].player_wallet]]

\* The number of entries of rows that are the entry x.
C12_Count(rows, x) == Cardinality({i \in 1..Len(rows) : rows[i] = x})

\* C12: the history a statistics read answers has at most 20 entries, in
\* descending order of timestamp (entries of one timestamp in either
\* order); each is a row of the store, answered no more often than the
\* store holds it; no row left out is newer than a row answered, and
\* unless a select failed none is left out while fewer than 20 are
\* answered: whatever the number of rows and the order in which they were
\* appended.
C12_HistoryBoundedNewestFirst ==
  reader.pc = "done" =>
    LET h == reader.response.stats.gameHistory
    IN  /\ Len(h) <= 20
        /\ \A i \in 1..Len(h) :
             /\ C12_Count(h, h[i]) <= C12_Count(C12_Reported, h[i])
             /\ i < Len(h) => h[i].timestamp >= h[i + 1].timestamp
        /\ \A k \in 1..Len(history) :
             C12_Count(h, C12_Reported[k])
               < C12_Count(C12_Reported, C12_Reported[k])
             => \A i \in 1..Len(h) :
                  C12_Reported[k].timestamp <= h[i].timestamp
        /\ reader.failed = "" =>
             Len(h) = IF Len(history) < 20 THEN Len(history) ELSE 20

\* More than 20 rows, appended oldest first and stamped in pairs, of which
\* the newest 20 are answered.
C12_Witness ==
  /\ reader.pc = "done" /\ reader.failed = ""
  /\ Len(history) = 22
  /\ history[1].timestamp = 1 /\ history[2].timestamp = 1
  /\ history[22].timestamp = 11
  /\ Len(reader.response.stats.gameHistory) = 20
  /\ reader.response.stats.gameHistory[1].timestamp = 11
  /\ reader.response.stats.gameHistory[2].timestamp = 11
  /\ reader.response.stats.gameHistory[20].timestamp = 2

\* Every row of game_history is, after the step, the row it was, at the
\* place it was.
C13_RowsKept ==
  /\ Len(history') >= Len(history)
  /\ \A i \in 1..Len(history) : history'[i] = history[i]

\* C13: no step of a settlement, of a statistics read or of a statistics
\* write mutates or deletes a row of game_history: the rows after a step
\* include the rows before it, unchanged.
C13_HistoryAppendOnly == [][C13_RowsKept]_vars

\* A settlement that paid and a statistics read answered with every row,
\* after a statistics write appended its row to the rows of the store.
C13_Witness ==
  /\ Len(history) = MaxWrites
  /\ SubSeq(history, 1, MaxWrites - 1)
       = StoredHistory(MaxWrites - 1, 0, TRUE, FALSE)
  /\ writer["w1"].pc = "done" /\ writer["w1"].response.status = 200
  /\ ledger # {}
  /\ reader.pc = "done"
  /\ Len(reader.response.stats.gameHistory) = MaxWrites

\* C14: GET /api/play reports whether a custodial key is available, the
\* number of RPC endpoint candidates, fee 0% and multiplier 2x; the step
\* that answers it leaves every settlement invocation where it was (no
\* probe, status lookup, draw or broadcast), and changes neither the
\* payouts issued nor the statistics store.
C14_InfoPerformsNoSettlement ==
  /\ [](info # NoInfo =>
          /\ info.payoutEnabled <=> bankKey \in {"base58", "jsonArray"}
          /\ info.rpcEndpoints = NumEndpoints
          /\ info.fee = "0%" /\ info.multiplier = "2x")
  /\ [][info' # info =>
          /\ call' = call /\ ledger' = ledger /\ bankKey' = bankKey
          /\ agg' = agg /\ history' = history]_vars

\* The answer given while a settlement waits for its broadcast and a
\* statistics write for its upsert.
C14_Witness ==
  /\ info # NoInfo /\ info.payoutEnabled
  /\ writer["w1"].pc = "upsert" /\ Len(history) = MaxWrites
  /\ \E c \in Calls : call[c].pc = "broadcast"

\* C15: an invocation that reaches the outcome has drawn one number r of
\* [0, 1), exactly once, and its outcome is win if r < 1/2 and loss
\* otherwise; two invocations that drew the same r have the same outcome,
\* whatever their reference, address, amount and the custodial key.
C15_OutcomeIsFunctionOfDraw ==
  /\ \A c \in Calls :
       /\ call[c].draws <= 1
       /\ call[c].draws = 0 => (call[c].result = "" /\ call[c].random = -1)
       /\ call[c].draws = 1 =>
            /\ call[c].random \in 0..(RandomScale - 1)
            /\ call[c].result = "win" <=> 2 * call[c].random < RandomScale
            /\ call[c].result = "loss" <=> 2 * call[c].random >= RandomScale
       /\ call[c].pc \in {"blockhash", "broadcast"} => call[c].draws = 1
       /\ (Answered(c) /\ call[c].response.status = 200) =>
            (call[c].draws = 1 /\ call[c].response.result = call[c].result)
  /\ \A c, d \in Calls :
       (call[c].draws = 1 /\ call[d].draws = 1
          /\ call[c].random = call[d].random) =>
         call[c].result = call[d].result

\* Two rounds of different amounts and addresses that drew exactly one
\* half: both lost.
C15_Witness ==
  /\ 2 * call["c1"].random = RandomScale /\ 2 * call["c2"].random = RandomScale
  /\ call["c1"].betAmount = Num(1) /\ call["c2"].betAmount = Num(2)
  /\ call["c1"].playerWallet # call["c2"].playerWallet
  /\ call["c1"].response.result = "loss"
  /\ call["c2"].response.result = "loss"

\* C17: a round is rejected at the verification step only when a status
\* was found and marks failure; when none was found, when one was found
\* without failure, and when the lookup threw, the round goes on to the
\* draw.
C17_VerificationFailsOpen ==
  \A c \in Calls :
    /\ call[c].lookups = 1 =>
         \/ call[c].statusErr /\ call[c].status = "err" /\ Answered(c)
              /\ call[c].response.error = "Transaction failed on-chain"
         \/ ~call[c].statusErr /\ call[c].pc = "settle"
              /\ call[c].status \in {"null", "ok", "throw"}
              /\ call[c].draws = 0
         \/ ~call[c].statusErr /\ call[c].status = "" /\ call[c].draws = 1
    /\ (Answered(c) /\ call[c].response.status = 400 /\ call[c].lookups = 1)
         => call[c].statusErr

\* One round goes on after a lookup that threw, another after a status
\* that was not found.
C17_Witness ==
  /\ call["c1"].pc = "settle" /\ call["c1"].status = "throw"
  /\ call["c2"].pc = "settle" /\ call["c2"].status = "null"

\* What a round pays on a win, from its request alone.
C18_Double(betAmount) ==
  IF betAmount.t = "number" THEN Num(2 * betAmount.v) ELSE NaN

\* C18: whatever the referenced transfer moved, between whichever parties,
\* and whether or not it exists, a round whose status lookup reports no
\* failure is verified, its outcome follows from its draw, and the payout
\* amount is twice the betAmount of the request, sent to the address of
\* the request: a function of the request and the draw, not of the chain.
C18_CallerAmountTrusted ==
  /\ \A c \in Calls :
       /\ (call[c].lookups = 1 /\ ~call[c].statusErr) =>
            (call[c].pc # "verify" /\ call[c].response.status \in {0, 200})
       /\ call[c].draws = 1 =>
            /\ call[c].result = "win" <=> 2 * call[c].random < RandomScale
            /\ call[c].potentialWin = C18_Double(call[c].betAmount)
       /\ (Answered(c) /\ call[c].response.result = "win") =>
            call[c].response.potentialWin = C18_Double(call[c].betAmount)
  /\ \A p \in ledger :
       /\ p.amount = C18_Double(call[p.by].betAmount)
       /\ p.to = call[p.by].playerWallet

\* A wager of 2 by walletA is paid 4 on a reference under which 1 moved
\* between other parties; another is paid on the same reference.
C18_Witness ==
  /\ chain.found /\ chain.amount = 1 /\ chain.from = "walletB"
  /\ \E p \in ledger : p.amount = Num(4) /\ p.to = "walletA"
  /\ Cardinality(ledger) = 2

\* C19: a round probes the candidates in list order, each at most once and
\* none after a probe that succeeded; it uses the first candidate whose
\* probe succeeded; when every probe failed it uses the first candidate
\* and goes on to the status lookup; the lookup and the broadcast of the
\* round go to the candidate selected.
C19_FirstLiveEndpointSelected ==
  \A c \in Calls :
    LET p == call[c].probed
        n == Len(p)
    IN  /\ n <= NumEndpoints /\ call[c].probes = n
        /\ \A i \in 1..n : p[i].endpoint = i
        /\ \A i \in 1..n : p[i].alive => i = n
        /\ call[c].pc = "connect" =>
             (n < NumEndpoints /\ call[c].connection = 0
                /\ \A i \in 1..n : ~p[i].alive)
        /\ call[c].connection # 0 =>
             /\ n >= 1
             /\ p[n].alive => call[c].connection = n
             /\ ~p[n].alive => (n = NumEndpoints /\ call[c].connection = 1)
             /\ call[c].pc = "verify" \/ call[c].lookups = 1
        /\ call[c].connection = 0 => (call[c].lookups = 0 /\ call[c].draws = 0)
        /\ call[c].lookups = 1 => call[c].lookupOn = call[c].connection
        /\ call[c].broadcasts = 1 => call[c].broadcastOn = call[c].connection

\* One round is paid through the first candidate after every probe
\* failed; another through the second candidate, the first being down.
C19_Witness ==
  \E c, d \in Calls :
    /\ call[c].probes = NumEndpoints
    /\ \A i \in 1..NumEndpoints : ~call[c].probed[i].alive
    /\ call[c].broadcastOn = 1 /\ call[c].response.payoutSignature # ""
    /\ call[d].connection = 2 /\ call[d].lookupOn = 2
    /\ call[d].broadcastOn = 2 /\ call[d].response.payoutSignature # ""

\* The invocations answered with a payout signature for the reference s.
C20_PaidFor(s) ==
  {c \in Calls : /\ Answered(c) /\ call[c].signature = s
                  /\ call[c].response.payoutSignature # ""}

\* C20: requests that carry the same reference are settled each on its
\* own: each that reaches the outcome makes its own draw, and each that is
\* answered with a payout signature has its own payout issued, so that the
\* payouts issued for a reference are as many as the requests paid for it:
\* two, when the request is sent twice and wins twice.
C20_NoIdempotencyGuard ==
  /\ \A c \in Calls :
       (Answered(c) /\ call[c].response.status = 200) => call[c].draws = 1
  /\ \A s \in Signatures :
       Cardinality({p \in ledger : p.reference = s}) =
         Cardinality(C20_PaidFor(s))
  /\ \A c \in Calls :
       call[c].response.payoutSignature # "" =>
         \E p \in ledger : p.by = c /\ p.reference = call[c].signature

\* The same request, sent twice, is paid twice on two draws.
C20_Witness ==
  /\ C20_PaidFor("sigA") = Calls
  /\ call["c1"].playerWallet = call["c2"].playerWallet
  /\ call["c1"].betAmount = Num(1) /\ call["c2"].betAmount = Num(1)
  /\ call["c1"].random # call["c2"].random
  /\ Cardinality({p \in ledger : p.reference = "sigA"}) = 2

\* C21: when the insert of a statistics write reports an error, the write
\* goes on: its upsert stores the counters it read plus this round, and the
\* answer is a success unless the upsert fails too.  When the upsert fails,
\* the answer is 500 and the row this write inserted is still in
\* game_history; the write makes no second attempt, the handler has ended.
C21_EffectsFailIndependently ==
  /\ [](\A w \in Writers :
         LET wr == writer[w]
         IN  /\ wr.inserted = "error" =>
                  /\ wr.pc \in {"upsert", "read2Stats", "read2History", "done"}
                  /\ wr.pc = "done" =>
                       \/ wr.upserted = "data" /\ wr.response.status = 200
                       \/ wr.upserted \in {"error", "throw"}
                            /\ wr.response.status = 500
             /\ wr.upserted \in {"error", "throw"} =>
                  /\ wr.pc = "done" /\ wr.response.status = 500
                  /\ wr.inserted = "data" =>
                       /\ wr.row \in 1..Len(history)
                       /\ history[wr.row].result = wr.result
                       /\ history[wr.row].amount = wr.amount.v
                       /\ history[wr.row].player_wallet = wr.playerWallet)
  /\ [][\A w \in Writers :
         /\ (writer[w].upserted = "" /\ writer'[w].upserted = "data") =>
              /\ agg'.total_bets = writer[w].stats.totalBets + 1
              /\ agg'.total_wagered =
                   writer[w].stats.totalWagered + writer[w].amount.v
              /\ history' = history
         /\ (writer[w].upserted = "" /\ writer'[w].upserted \in {"error", "throw"})
              => (agg' = agg /\ history' = history)
         /\ writer[w].upserted # "" =>
              (writer'[w].upserted = writer[w].upserted => agg' = agg
                 \/ \E v \in Writers \ {w} : writer'[v] # writer[v])]_vars

\* One write is answered a success and counted after its insert failed;
\* the other is answered 500 and leaves its row behind.
C21_Witness ==
  /\ writer["w1"].pc = "done" /\ writer["w1"].inserted = "error"
  /\ writer["w1"].response.status = 200
  /\ writer["w2"].pc = "done" /\ writer["w2"].inserted = "data"
  /\ writer["w2"].upserted = "error" /\ writer["w2"].response.status = 500
  /\ Len(history) = 1 /\ agg.total_bets = 1


\* C24: no step of a settlement invocation, whatever it answers, changes
\* the aggregate row or the history table; a step that changes either is
\* a step of a statistics write; and so the rounds counted and the rows
\* kept never exceed the statistics writes received.
C24_SettlementLeavesStoreAlone ==
  /\ [](agg.total_bets <= writes /\ Len(history) <= writes)
  /\ [][/\ call' # call => (agg' = agg /\ history' = history)
        /\ (agg' # agg \/ history' # history) =>
              \E w \in Writers :
                /\ writer[w].pc \in {"insert", "upsert"}
                /\ writer'[w] # writer[w]]_vars

\* A win was paid and answered while a statistics request was turned
\* down, and the store holds what it held before the settlement: no trace
\* of the round.
C24_Witness ==
  /\ \E c \in Calls :
       /\ call[c].pc = "done" /\ call[c].response.payoutSignature # ""
       /\ \E p \in ledger : p.by = c
  /\ writer["w1"].pc = "done" /\ writer["w1"].response.status = 400
  /\ history = StoredHistory(MaxWrites - 1, 0, TRUE, FALSE)
  /\ agg = StoredAggregate(history) /\ writes = MaxWrites

\* C25: no step lowers a counter of the aggregate row: total_bets, wins
\* and losses after an upsert are at least what they were before it, in
\* statistics writes that follow one another, a write whose aggregate
\* select failed included.
C25_CountersNeverDecrease ==
  [][/\ agg'.total_bets >= agg.total_bets
     /\ agg'.wins >= agg.wins
     /\ agg'.losses >= agg.losses]_vars

(***************************************************************************)
(* Properties of a round of the page (RoundSpec).                          *)
(***************************************************************************)
\* The timer of 25 s has aborted the settlement call of round k.
C22_TimedOut(k) == round[k].fetchError = "AbortError"

\* C22: a round whose settlement call is aborted by the 25-second timer
\* shows the status "Response timeout - check your wallet for result" at
\* the abort and stops spinning when it ends; it has sent the settlement
\* call once and never sends it again, never runs finishGame (no win/loss
\* result shown) and never posts to the statistics accessor, whatever the
\* server has done with the request.
C22_TimeoutIsAmbiguousAndFinal ==
  /\ [](\A k \in Rounds :
          C22_TimedOut(k) =>
            /\ round[k].pc \in {"timeout", "done"}
            /\ round[k].pc = "done" => round[k].ended = "timeout"
            /\ round[k].settlementCalls = 1
            /\ ~round[k].finished /\ round[k].shown = ""
            /\ ui.gameResult = ""
            /\ ~round[k].posted.sent
            /\ writer[WriterOf(k)] = IdleWriter)
  /\ [][\A k \in Rounds :
          /\ (~C22_TimedOut(k) /\ C22_TimedOut(k)') =>
                ui'.transactionStatus =
                  "Response timeout - check your wallet for result"
          /\ (round[k].pc = "timeout" /\ round'[k].pc # "timeout") =>
                (~ui'.isSpinning /\ round'[k].ended = "timeout")]_vars

\* A round has ended on the timeout, nothing is shown or posted, and the
\* ledger holds the payout the server issued for its request.
C22_Witness ==
  \E k \in Rounds :
    /\ C22_TimedOut(k) /\ round[k].ended = "timeout"
    /\ ~ui.isSpinning /\ ui.gameResult = ""
    /\ \E p \in ledger : p.by = k /\ p.reference = round[k].signature

\* C23: where the bank address is configured (no demo mode), a round has
\* called the settlement endpoint only after its one transfer was submitted
\* and confirmed without error; it has posted to the statistics accessor
\* only after finishGame ran on an answer of status 200 carrying win or
\* loss, and posted that result; and a round that failed before the
\* transfer was submitted (the wallet rejected it), at the confirmation or
\* on an error answer of the settlement endpoint has taken no later step:
\* no settlement call in the first two cases, no result shown and no post
\* in all three.
C23_RoundFollowsOrder ==
  bankAddress = "bankWallet" =>
    \A k \in Rounds :
      /\ round[k].settlementCalls >= 1 =>
            /\ round[k].settlementCalls = 1 /\ round[k].transfers = 1
            /\ round[k].confirmation = "ok"
      /\ call[k].pc # "idle" => round[k].settlementCalls = 1
      /\ writer[WriterOf(k)] # IdleWriter => round[k].posted.received
      /\ round[k].posted.received => round[k].posted.sent
      /\ round[k].posted.sent =>
            /\ round[k].finished /\ round[k].status = 200
            /\ round[k].parsed
            /\ round[k].data.result \in {"win", "loss"}
            /\ round[k].posted.result = round[k].data.result
            /\ round[k].posted.amount = round[k].betAmountNum
      /\ (round[k].ended = "error" /\ round[k].transfers = 0) =>
            /\ round[k].settlementCalls = 0
            /\ ~round[k].finished /\ ~round[k].posted.sent
      /\ round[k].confirmation \in {"err", "throw"} =>
            /\ round[k].pc = "done" /\ round[k].settlementCalls = 0
            /\ ~round[k].finished /\ ~round[k].posted.sent
      /\ round[k].status \notin {0, 200} =>
            /\ round[k].pc \in {"json", "done"}
            /\ ~round[k].finished /\ ~round[k].posted.sent

\* A round went through the whole order: one transfer, confirmed, one
\* settlement call answered with a win, the win posted and counted.
C23_Witness ==
  /\ bankAddress = "bankWallet"
  /\ \E k \in Rounds :
       /\ round[k].transfers = 1 /\ round[k].settlementCalls = 1
       /\ round[k].ended = "result" /\ round[k].data.result = "win"
       /\ round[k].posted.received /\ round[k].posted.result = "win"
       /\ agg.wins = 1

(***************************************************************************)
(* Properties of the page under several clicks (ClientSpec).               *)
(***************************************************************************)
\* playGame has begun round k and the round has not ended.
C26_InProgress(k) == round[k].pc \notin {"idle", "done"}

\* C26: while a round is in progress, from the click that began it to its
\* end, a later click has submitted no wager transfer and has made no
\* settlement call.
C26_SingleRoundInProgress ==
  \A j \in Rounds : \A k \in Earlier(j) :
    C26_InProgress(k) =>
      round[j].transfers = 0 /\ round[j].settlementCalls = 0

=============================================================================
